---------------------------- MODULE Spec2Model ----------------------------
(***************************************************************************)
(* A model of the Atlantic Zenkeo AC protocol client                        *)
(* (custom_components/ha_atlantic_zenkeo/pyzenkeo.py).                      *)
(*                                                                         *)
(* A Python str is a sequence of one-character strings, a Python bytes     *)
(* value is a sequence of integers 0..255.  A call that may raise yields    *)
(* Ok(value) or Raise(<exception name>).                                   *)
(***************************************************************************)
EXTENDS Integers, Sequences, FiniteSets, TLC

\* ------------------------------------------------------------------------
\* Python primitives used by the client
\* ------------------------------------------------------------------------

\* A string literal of the source as a Python str.
Chars(s) == [i \in 1..Len(s) |-> SubSeq(s, i, i)]

\* The outcome of a call that may raise: a value, or the exception raised.
Ok(v) == [ok |-> TRUE, val |-> v]

Raise(e) == [ok |-> FALSE, exc |-> e]

SetMin(S) == CHOOSE x \in S : \A y \in S : x <= y

SetMax(S) == CHOOSE x \in S : \A y \in S : x >= y

HexDigits == Chars("0123456789abcdef")

UpperHexDigits == Chars("0123456789ABCDEF")

\* int(ch, 16) for every character that is a hex digit.
HexTable ==
    [ch \in {HexDigits[i] : i \in 1..16} \cup {UpperHexDigits[i] : i \in 1..16} |->
        (CHOOSE i \in 1..16 : HexDigits[i] = ch \/ UpperHexDigits[i] = ch) - 1]

HexChars == DOMAIN HexTable

IsHexChar(ch) == ch \in HexChars

HexVal(ch) == HexTable[ch]

\* f"{n:x}": lower-case hex without padding, a leading '-' when n < 0.
RECURSIVE FormatHexNat(_)
FormatHexNat(n) ==
    IF n < 16 THEN <<HexDigits[n + 1]>>
    ELSE FormatHexNat(n \div 16) \o <<HexDigits[(n % 16) + 1]>>

FormatX(n) == IF n < 0 THEN <<"-">> \o FormatHexNat(0 - n) ELSE FormatHexNat(n)

\* f"{n:02x}": as FormatX, zero-padded to a width of two.
Format02x(n) ==
    LET s == FormatX(n)
    IN  IF Len(s) >= 2 THEN s
        ELSE IF n < 0 THEN <<"-">> \o Tail(s) ELSE <<"0">> \o s

\* s.replace(" ", "")
StripSpaces(s) == SelectSeq(s, LAMBDA ch : ch # " ")

\* s.split(" ")[-1]
LastField(s) ==
    LET sp == {i \in 1..Len(s) : s[i] = " "}
    IN  IF sp = {} THEN s ELSE SubSeq(s, SetMax(sp) + 1, Len(s))

\* int(s, 16) for a string of hex digits; ValueError otherwise.
RECURSIVE HexNat(_)
HexNat(s) ==
    IF Len(s) = 0 THEN 0
    ELSE 16 * HexNat(SubSeq(s, 1, Len(s) - 1)) + HexVal(s[Len(s)])

IntHex(s) ==
    IF Len(s) = 0 \/ \E i \in 1..Len(s) : ~IsHexChar(s[i])
    THEN Raise("ValueError")
    ELSE Ok(HexNat(s))

\* bytes.fromhex(s) for a string without white space: pairs of hex digits.
BytesFromHex(s) ==
    IF Len(s) % 2 # 0 \/ \E i \in 1..Len(s) : ~IsHexChar(s[i])
    THEN Raise("ValueError")
    ELSE Ok([i \in 1..(Len(s) \div 2) |->
                16 * HexVal(s[2 * i - 1]) + HexVal(s[2 * i])])

\* ord(c) of the characters a MAC string may hold.
AsciiTable ==
    [c \in {"0", "1", "2", "3", "4", "5", "6", "7", "8", "9"} |->
        48 + HexVal(c)]
    @@ [c \in {"A", "B", "C", "D", "E", "F"} |-> 55 + HexVal(c)]
    @@ [c \in {"a", "b", "c", "d", "e", "f"} |-> 87 + HexVal(c)]
    @@ (":" :> 58)

Ord(ch) == AsciiTable[ch]

\* str.upper() on one character.
UpperChar(ch) ==
    IF \E i \in 11..16 : HexDigits[i] = ch
    THEN UpperHexDigits[HexVal(ch) + 1]
    ELSE ch

\* f"{n}" for n >= 0: decimal digits.
RECURSIVE FormatDec(_)
FormatDec(n) ==
    IF n < 10 THEN <<HexDigits[n + 1]>>
    ELSE FormatDec(n \div 10) \o <<HexDigits[(n % 10) + 1]>>

\* "".join(parts)
RECURSIVE JoinEmpty(_)
JoinEmpty(parts) ==
    IF Len(parts) = 0 THEN <<>> ELSE Head(parts) \o JoinEmpty(Tail(parts))

\* " ".join(parts)
RECURSIVE JoinSpace(_)
JoinSpace(parts) ==
    IF Len(parts) = 0 THEN <<>>
    ELSE IF Len(parts) = 1 THEN Head(parts)
    ELSE Head(parts) \o <<" ">> \o JoinSpace(Tail(parts))

\* ------------------------------------------------------------------------
\* Enumerations (pyzenkeo.py, Limits / FanSpeed / Mode)
\* ------------------------------------------------------------------------

LimitsValue == [OFF |-> 0, ONLY_VERTICAL |-> 1]

FanSpeedValue == [MAX |-> 0, MID |-> 1, MIN |-> 2, AUTO |-> 3]

ModeValue == [SMART |-> 0, COOL |-> 1, HEAT |-> 2, FAN |-> 3, DRY |-> 4]

EnumOfClamped(table, v) ==
    IF \E m \in DOMAIN table : table[m] = v
    THEN Ok(CHOOSE m \in DOMAIN table : table[m] = v)
    ELSE Ok(CHOOSE m \in DOMAIN table : \A o \in DOMAIN table : table[o] <= table[m])

\* Enum(value): the member with that value, ValueError when there is none.
EnumOf(table, v) ==
    IF \E m \in DOMAIN table : table[m] = v
    THEN Ok(CHOOSE m \in DOMAIN table : table[m] = v)
    ELSE Raise("ValueError")

\* ------------------------------------------------------------------------
\* Frame codec
\* ------------------------------------------------------------------------

\* ZenkeoAC.__init__: self.mac = mac.replace(":", "").upper()
NormalizeMac(m) ==
    LET stripped == SelectSeq(m, LAMBDA ch : ch # ":")
    IN  [i \in 1..Len(stripped) |-> UpperChar(stripped[i])]

\* ZenkeoAC._order_byte
OrderByte(n) ==
    LET val == n % 256
    IN  IF val < 16
        THEN Chars("00 00 00 0") \o FormatX(val)
        ELSE Chars("00 00 00 ") \o FormatX(val)

Len4Digits(cmd) ==
    LET b == BytesFromHex(StripSpaces(cmd))
    IN  IF b.ok THEN Ok(OrderByte(Len(StripSpaces(cmd)))) ELSE b

\* ZenkeoAC._len4
Len4(cmd) ==
    LET b == BytesFromHex(StripSpaces(cmd))
    IN  IF b.ok THEN Ok(OrderByte(Len(b.val))) ELSE b

\* ZenkeoAC._build_command
BuildCommand(args) == BytesFromHex(StripSpaces(JoinEmpty(args)))

\* ZenkeoAC._get_seq: the string returned, and the counter it leaves.
GetSeqStr(s) == Chars("00 00 00 ") \o Format02x(s)

GetSeqNextWrap255(s) == (s + 1) % 255

GetSeqNextNoWrap(s) == s + 1

GetSeqNext(s) == (s + 1) % 256

\* ZenkeoAC._mac_to_hex
MacToHex(m) ==
    JoinSpace([i \in 1..Len(m) |-> Format02x(Ord(m[i]))]) \o Chars(" 00 00 00 00")

\* The weighted digit sum of _append_checksum over digits i..Len(d) (1-based;
\* the source's enumerate index is i - 1).
RECURSIVE DigitSum(_, _)
DigitSum(d, i) ==
    IF i > Len(d) THEN 0
    ELSE HexVal(d[i]) * (((i - 1) % 2) + 1) + DigitSum(d, i + 1)

AppendChecksumLowNibble(command_str) ==
    LET d == StripSpaces(command_str)
    IN  IF \E i \in 1..Len(d) : ~IsHexChar(d[i])
        THEN Raise("ValueError")
        ELSE LET checksum == (DigitSum(d, 1) - 2 * 255) % 16
             IN  Ok(command_str \o <<" ">> \o Format02x(checksum))

\* ZenkeoAC._append_checksum
AppendChecksum(command_str) ==
    LET d == StripSpaces(command_str)
    IN  IF \E i \in 1..Len(d) : ~IsHexChar(d[i])
        THEN Raise("ValueError")
        ELSE LET checksum == (DigitSum(d, 1) - 2 * 255) % 256
             IN  Ok(command_str \o <<" ">> \o Format02x(checksum))

\* ------------------------------------------------------------------------
\* Command catalog
\* ------------------------------------------------------------------------

HelloPayload == Chars("ff ff 0a 00 00 00 00 00 00 01 4d 01 59")

InitPayload == Chars("ff ff 08 00 00 00 00 00 00 73 7b")

TurnOnPayload == Chars("ff ff 0a 00 00 00 00 00 00 01 4d 02 5a")

TurnOffPayload == Chars("ff ff 0a 00 00 00 00 00 00 01 4d 03 5b")

StateHeader ==
    Chars("ff ff 22 00 00 00 00 00 00 01 4d 5f 00 00 00 00 00 00 00 00 00 00 ")

StateCommandFanFirst(a) ==
    StateHeader
    \o Chars("00 0") \o FormatDec(FanSpeedValue[a.fan_speed]) \o <<" ">>
    \o Chars("00 0") \o FormatDec(ModeValue[a.mode]) \o <<" ">>
    \o Chars("00 0") \o FormatDec(LimitsValue[a.limits]) \o <<" ">>
    \o Chars("00 0") \o FormatDec(IF a.power THEN 1 ELSE 0) \o <<" ">>
    \o Chars("00 0") \o FormatDec(IF a.health THEN 1 ELSE 0) \o <<" ">>
    \o Chars("00 00 00 0") \o FormatX(a.target_temp - 16)

\* The f-string of change_state, before the checksum.
StateCommand(a) ==
    StateHeader
    \o Chars("00 0") \o FormatDec(ModeValue[a.mode]) \o <<" ">>
    \o Chars("00 0") \o FormatDec(FanSpeedValue[a.fan_speed]) \o <<" ">>
    \o Chars("00 0") \o FormatDec(LimitsValue[a.limits]) \o <<" ">>
    \o Chars("00 0") \o FormatDec(IF a.power THEN 1 ELSE 0) \o <<" ">>
    \o Chars("00 0") \o FormatDec(IF a.health THEN 1 ELSE 0) \o <<" ">>
    \o Chars("00 00 00 0") \o FormatX(a.target_temp - 16)

\* The values get_state puts in its f-string, as change_state arguments.
GetStateArgs ==
    [power |-> FALSE, mode |-> "COOL", fan_speed |-> "AUTO",
     target_temp |-> 21, health |-> FALSE, limits |-> "OFF"]

GetStateCommandPowerOn ==
    StateHeader
    \o Chars("00 0") \o FormatDec(ModeValue["COOL"]) \o <<" ">>
    \o Chars("00 0") \o FormatDec(FanSpeedValue["AUTO"]) \o <<" ">>
    \o Chars("00 0") \o FormatDec(LimitsValue["OFF"]) \o <<" ">>
    \o Chars("00 0") \o FormatDec(1) \o <<" ">>
    \o Chars("00 0") \o FormatDec(0) \o <<" ">>
    \o Chars("00 00 00 0") \o FormatX(21 - 16)

\* The f-string of get_state, before the checksum.
GetStateCommand ==
    StateHeader
    \o Chars("00 0") \o FormatDec(ModeValue["COOL"]) \o <<" ">>
    \o Chars("00 0") \o FormatDec(FanSpeedValue["AUTO"]) \o <<" ">>
    \o Chars("00 0") \o FormatDec(LimitsValue["OFF"]) \o <<" ">>
    \o Chars("00 0") \o FormatDec(0) \o <<" ">>
    \o Chars("00 0") \o FormatDec(0) \o <<" ">>
    \o Chars("00 00 00 0") \o FormatX(21 - 16)

EnvelopeMagic == Chars("00 00 27 14 00 00 00 00")

ZeroBlock == Chars("00 00 00 00 00 00 00 00 00 00 00 00 00 00 00 00")

\* The lambda every facade operation hands to _send_request.
CreateCommand(m, payload, seqn) ==
    LET l == Len4(payload)
    IN  IF ~l.ok THEN l
        ELSE BuildCommand(<<EnvelopeMagic, ZeroBlock, ZeroBlock, MacToHex(m),
                            ZeroBlock, OrderByte(seqn), l.val, payload>>)

\* What a facade operation computes before it calls _send_request: its
\* payload, or the exception _append_checksum raises.
Payload(op, a) ==
    CASE op = "hello" -> Ok(HelloPayload)
      [] op = "init" -> Ok(InitPayload)
      [] op = "turn_on" -> Ok(TurnOnPayload)
      [] op = "turn_off" -> Ok(TurnOffPayload)
      [] op = "get_state" -> AppendChecksum(GetStateCommand)
      [] op = "change_state" -> AppendChecksum(StateCommand(a))

\* _send_request up to the await: the value handed to create_command.
SendRequestSeq(s) == IntHex(LastField(GetSeqStr(s)))

\* ------------------------------------------------------------------------
\* State response parser
\* ------------------------------------------------------------------------

\* b"\xff\xff\x22\x00"
StateMarker == <<255, 255, 34, 0>>

DataFormatBytes ==
    <<[n |-> 8, c |-> "x"], [n |-> 1, c |-> "B"], [n |-> 8, c |-> "x"],
      [n |-> 1, c |-> "B"], [n |-> 1, c |-> "B"], [n |-> 1, c |-> "B"],
      [n |-> 1, c |-> "B"], [n |-> 1, c |-> "B"], [n |-> 2, c |-> "x"],
      [n |-> 1, c |-> "B"]>>

\* ">8xH8xHHHHH2xH": big-endian, x one pad byte, H one unsigned short.
DataFormat ==
    <<[n |-> 8, c |-> "x"], [n |-> 1, c |-> "H"], [n |-> 8, c |-> "x"],
      [n |-> 1, c |-> "H"], [n |-> 1, c |-> "H"], [n |-> 1, c |-> "H"],
      [n |-> 1, c |-> "H"], [n |-> 1, c |-> "H"], [n |-> 2, c |-> "x"],
      [n |-> 1, c |-> "H"]>>

\* struct's standard sizes: x and B one byte, H two.
CodeSize(c) == IF c = "H" THEN 2 ELSE 1

\* struct.calcsize
RECURSIVE CalcSize(_)
CalcSize(fmt) ==
    IF Len(fmt) = 0 THEN 0
    ELSE Head(fmt).n * CodeSize(Head(fmt).c) + CalcSize(Tail(fmt))

\* The values struct.unpack reads from buf at 1-based position at.
RECURSIVE UnpackFrom(_, _, _)
UnpackFrom(fmt, buf, at) ==
    IF Len(fmt) = 0 THEN <<>>
    ELSE LET t == Head(fmt)
             w == t.n * CodeSize(t.c)
             here == IF t.c = "H"
                     THEN [i \in 1..t.n |->
                              256 * buf[at + 2 * (i - 1)] + buf[at + 2 * (i - 1) + 1]]
                     ELSE IF t.c = "B" THEN [i \in 1..t.n |-> buf[at + i - 1]]
                     ELSE <<>>
         IN  here \o UnpackFrom(Tail(fmt), buf, at + w)

\* struct.unpack
Unpack(fmt, buf) ==
    IF Len(buf) # CalcSize(fmt) THEN Raise("struct.error")
    ELSE Ok(UnpackFrom(fmt, buf, 1))

\* bytes.find: the 0-based index of the first occurrence, -1 when none.
Find(buf, pat) ==
    LET hits == {i \in 1..(Len(buf) - Len(pat) + 1) :
                    SubSeq(buf, i, i + Len(pat) - 1) = pat}
    IN  IF hits = {} THEN 0 - 1 ELSE SetMin(hits) - 1

\* response[a:b] for 0 <= a <= b
Slice(buf, a, b) ==
    SubSeq(buf, a + 1, IF b < Len(buf) THEN b ELSE Len(buf))

\* The value None of ZenkeoState | None.
AbsentState == [present |-> FALSE]

MakeStateNoOffset(u) ==
    LET fan == EnumOf(FanSpeedValue, u[3])
        mode == EnumOf(ModeValue, u[2])
    IN  IF ~fan.ok THEN fan
        ELSE IF ~mode.ok THEN mode
        ELSE Ok([present |-> TRUE,
                 current_temperature |-> u[1],
                 target_temperature |-> u[7],
                 fan_speed |-> fan.val,
                 mode |-> mode.val,
                 health |-> (u[6] % 2) # 0,
                 power |-> (u[5] % 2) # 0])

\* The ZenkeoState(...) constructor call of _parse_state: FanSpeed(fan_speed)
\* is evaluated before Mode(mode).
MakeState(u) ==
    LET fan == EnumOf(FanSpeedValue, u[3])
        mode == EnumOf(ModeValue, u[2])
    IN  IF ~fan.ok THEN fan
        ELSE IF ~mode.ok THEN mode
        ELSE Ok([present |-> TRUE,
                 current_temperature |-> u[1],
                 target_temperature |-> u[7] + 16,
                 fan_speed |-> fan.val,
                 mode |-> mode.val,
                 health |-> (u[6] % 2) # 0,
                 power |-> (u[5] % 2) # 0])

\* The try block of _parse_state.
ParseBody(response) ==
    LET payload_start == Find(response, StateMarker)
        data_start == payload_start + 4
        expected_size == CalcSize(DataFormat)
    IN  IF payload_start = 0 - 1 THEN Ok(AbsentState)
        ELSE IF Len(response) < data_start + expected_size THEN Ok(AbsentState)
        ELSE LET unpacked ==
                     Unpack(DataFormat,
                            Slice(response, data_start, data_start + expected_size))
             IN  IF ~unpacked.ok THEN unpacked ELSE MakeState(unpacked.val)

ParseCaughtStructOnly == {"struct.error"}

\* The exceptions the except clause of _parse_state catches.
ParseCaught == {"struct.error", "ValueError"}

\* ZenkeoAC._parse_state
ParseState(response) ==
    LET r == ParseBody(response)
    IN  IF r.ok THEN r
        ELSE IF r.exc \in ParseCaught THEN Ok(AbsentState)
        ELSE r

\* ------------------------------------------------------------------------
\* Bounds and inputs
\* ------------------------------------------------------------------------

\* Sends issued in the concurrent specification.
MaxSends == 3

\* Sends issued in the sequential specification (the counter wraps at 256).
MaxSeqSends == 258

\* Facade calls that raise before they reach _send_request.
MaxEarly == 1

\* Faults of the environment in one run that leave a lasting mark on the
\* session: cancelled callers and connections the peer ends.
MaxFaults == 1

Callers == {1, 2}

FacadeOps == {"hello", "init", "turn_on", "turn_off", "get_state", "change_state"}

\* The operations issued where the frame's content does not matter: one that
\* returns the raw response and one that parses it.
SessionOps == {"hello", "get_state"}

StateOps == {"get_state", "change_state"}

\* The constructor's mac argument.
MacInputs == {Chars("AA:BB:CC:DD:EE:FF"), Chars("0a:1b:2c:3d:4e:5f")}

\* Arguments of change_state: two inside 16..31, one below, one above.
ChangeInputs ==
    {[power |-> TRUE, mode |-> "COOL", fan_speed |-> "AUTO",
      target_temp |-> 22, health |-> FALSE, limits |-> "OFF"],
     [power |-> TRUE, mode |-> "HEAT", fan_speed |-> "MIN",
      target_temp |-> 31, health |-> TRUE, limits |-> "ONLY_VERTICAL"],
     [power |-> FALSE, mode |-> "DRY", fan_speed |-> "MAX",
      target_temp |-> 15, health |-> FALSE, limits |-> "OFF"],
     [power |-> TRUE, mode |-> "FAN", fan_speed |-> "MID",
      target_temp |-> 32, health |-> FALSE, limits |-> "OFF"]}

\* The arguments a facade operation is called with.
ArgsOf(op) == IF op = "change_state" THEN ChangeInputs ELSE {GetStateArgs}

\* The 32 bytes after the marker in a response that reports
\* current 25, HEAT, MIN, limits OFF, power on, health off, target 19.
StateBody ==
    <<0, 0, 0, 0, 0, 0, 0, 0,  0, 25,  0, 0, 0, 0, 0, 0, 0, 0,
      0, 2,  0, 2,  0, 0,  0, 1,  0, 0,  0, 0,  0, 3>>

Zeros(n) == [i \in 1..n |-> 0]

\* What the device may send for one request: a state-bearing response behind
\* leading framing, the same cut short, one without the marker, and one longer
\* than a single read takes.
ValidResponse == <<0, 0, 39, 21>> \o StateMarker \o StateBody \o <<93>>

ShortResponse == <<0, 0, 39, 21>> \o StateMarker \o SubSeq(StateBody, 1, 20)

PlainResponse == <<0, 0, 39, 21, 255, 255, 10, 0>>

LongResponse == Zeros(1000) \o StateMarker \o StateBody

DeviceResponses == {ValidResponse, ShortResponse, PlainResponse, LongResponse}

SeqResponses == {ValidResponse, ShortResponse}

\* ------------------------------------------------------------------------
\* Transport session
\* ------------------------------------------------------------------------

VARIABLES
    mac,        \* self.mac
    seq,        \* self._seq
    reader,     \* self._reader: 0 is None, else a connection
    writer,     \* self._writer: 0 is None, else a connection
    conns,      \* the connections that exist: id -> its transport and stream
    pc,         \* caller -> where its coroutine is suspended
    call,       \* caller -> its current (or last) facade call
    ncalls,     \* facade calls made so far
    nsend,      \* _send_request invocations so far
    connOks,    \* connections opened so far: 0, 1, or 2 for "two or more"
    everClosed, \* whether the peer ever ended a connection
    nfaults,    \* cancellations and ended connections so far
    pin,        \* the input drawn for a specification of pure steps
    pout,       \* what the step returned for it
    entity,     \* the _attr_ fields of the ZenkeoClimate entity
    handled     \* the last entity handler that ran, and how it ended

vars == <<mac, seq, reader, writer, conns, pc, call, ncalls, nsend, connOks,
          everClosed, nfaults, pin, pout, entity, handled>>

entityVars == <<entity, handled>>

sessionVars == <<mac, seq, reader, writer, conns, pc, call, ncalls, nsend,
                 connOks, everClosed, nfaults>>

pureVars == <<pin, pout>>

ReadLimitDoubled == 2 * 1024

\* reader.read(1024)
ReadLimit == 1024

NoCall ==
    [op |-> "none", args |-> GetStateArgs, n |-> 0 - 1, k |-> 0 - 1,
     cmd |-> <<>>, outcome |-> "none",
     exc |-> "", events |-> <<>>, conn |-> 0, data |-> <<>>, tags |-> {},
     returned |-> "nothing", state |-> AbsentState, startOpen |-> FALSE,
     wroteOpen |-> FALSE, reused |-> FALSE, overlap |-> FALSE]

\* A connection open_connection just returned.
FreshConn ==
    [open |-> TRUE, eof |-> FALSE, buf |-> <<>>, segs |-> <<>>, waiter |-> 0,
     pending |-> <<>>]

\* ZenkeoAC.__init__ with a mac argument among macs.
Construct(macs) ==
    /\ mac \in {NormalizeMac(m) : m \in macs}
    /\ seq = 0
    /\ reader = 0
    /\ writer = 0
    /\ conns = <<>>
    /\ pc = [c \in Callers |-> "idle"]
    /\ call = [c \in Callers |-> NoCall]
    /\ ncalls = 0
    /\ nsend = 0
    /\ connOks = 0
    /\ everClosed = FALSE
    /\ nfaults = 0

NoOutput == [done |-> FALSE]

\* No set-state command was handed to the client.
NoCommand == [issued |-> FALSE]

NoHandled ==
    [op |-> "none", answer |-> "none", outcome |-> "none", exc |-> "",
     cmd |-> NoCommand, resume |-> "none", trail |-> <<>>]

\* ZenkeoClimate.__init__
EntityInit ==
    /\ entity = [target_temperature |-> 21, current_temperature |-> 21,
                 hvac_mode |-> "OFF", previous_hvac_mode |-> "COOL",
                 fan_mode |-> "AUTO"]
    /\ handled = NoHandled

Init ==
    /\ Construct({Chars("AA:BB:CC:DD:EE:FF")})
    /\ pin = <<>>
    /\ pout = NoOutput
    /\ EntityInit

\* writer.is_closing()
IsClosing(cs, w) == ~cs[w].open

NeedsConnectAlways(cs, w) == TRUE

\* _send_command, line 78: not self._writer or self._writer.is_closing()
NeedsConnect(cs, w) == w = 0 \/ IsClosing(cs, w)

\* The connections still referenced: open ones, the session's writer, and the
\* ones a suspended read holds.
Collect(cs, w, pcs, calls) ==
    LET keep == {i \in DOMAIN cs :
                    \/ cs[i].open
                    \/ i = w
                    \/ \E c \in Callers : pcs[c] = "read" /\ calls[c].conn = i}
    IN  [i \in keep |-> cs[i]]

NewConnId(cs) == SetMin({i \in 1..(Cardinality(DOMAIN cs) + 1) : i \notin DOMAIN cs})

\* The requests answered by the first m buffered bytes, and the segments left.
RECURSIVE TakeTags(_, _)
TakeTags(segs, m) ==
    IF m = 0 \/ Len(segs) = 0 THEN {}
    ELSE LET h == Head(segs)
         IN  {[k |-> h.k, ab |-> h.ab]}
             \cup (IF h.n <= m THEN TakeTags(Tail(segs), m - h.n) ELSE {})

RECURSIVE DropSegs(_, _)
DropSegs(segs, m) ==
    IF m = 0 \/ Len(segs) = 0 THEN segs
    ELSE LET h == Head(segs)
         IN  IF h.n <= m THEN DropSegs(Tail(segs), m - h.n)
             ELSE <<[h EXCEPT !.n = h.n - m]>> \o Tail(segs)

\* What a facade operation returns for the bytes _send_request gave it:
\* get_state and change_state return self._parse_state(response), the others
\* the response itself.
FacadeResult(op, response) ==
    IF op \in StateOps
    THEN LET r == ParseState(response)
         IN  IF r.ok THEN [outcome |-> "returned", exc |-> "",
                           returned |-> "parsed", state |-> r.val]
             ELSE [outcome |-> "raised", exc |-> r.exc,
                   returned |-> "nothing", state |-> AbsentState]
    ELSE [outcome |-> "returned", exc |-> "", returned |-> "bytes",
          state |-> AbsentState]

\* The call record once read(1024) handed back the first bytes of the
\* buffer of connection r, and that connection's record after the read.
ReadBytes(cs, r) ==
    LET m == IF Len(cs[r].buf) < ReadLimit THEN Len(cs[r].buf) ELSE ReadLimit
    IN  [data |-> SubSeq(cs[r].buf, 1, m),
         tags |-> TakeTags(cs[r].segs, m),
         conn |-> [cs[r] EXCEPT !.buf = SubSeq(cs[r].buf, m + 1, Len(cs[r].buf)),
                                !.segs = DropSegs(cs[r].segs, m)]]

Returned(rec, got) ==
    LET f == FacadeResult(rec.op, got.data)
    IN  [rec EXCEPT !.events = rec.events \o <<"read">>,
                    !.data = got.data, !.tags = got.tags, !.conn = 0,
                    !.outcome = f.outcome, !.exc = f.exc,
                    !.returned = f.returned, !.state = f.state]

Failed(rec, e) == [rec EXCEPT !.outcome = "raised", !.exc = e, !.conn = 0]

\* _send_command from line 81 on, with self._reader = r and self._writer = w:
\* the None check, write, drain (which does not suspend on a transport that is
\* neither paused nor closing) and the call of read, which returns at once
\* when bytes are buffered or the stream is at EOF, raises RuntimeError when
\* another coroutine already waits on this reader, and suspends otherwise.
WriteAndRead(c, rec, cs, r, w) ==
    IF w = 0 \/ r = 0
    THEN /\ call' = [call EXCEPT ![c] = Failed(rec, "ConnectionError")]
         /\ pc' = [pc EXCEPT ![c] = "idle"]
         /\ conns' = Collect(cs, w, pc', call')
    ELSE LET busy == \E o \in Callers \ {c} : pc[o] = "read"
             wrote == [rec EXCEPT !.events = rec.events \o <<"write", "drain">>,
                                  !.wroteOpen = cs[w].open,
                                  !.reused = rec.startOpen /\ rec.events = <<>>,
                                  !.overlap = busy]
             sent == IF cs[w].open /\ ~cs[w].eof
                     THEN [cs EXCEPT ![w].pending =
                               Append(cs[w].pending, [k |-> rec.k, ab |-> FALSE])]
                     ELSE cs
         IN  IF Len(sent[r].buf) = 0 /\ ~sent[r].eof
             THEN IF sent[r].waiter # 0
                  THEN /\ call' = [call EXCEPT ![c] =
                               Failed([wrote EXCEPT !.events = wrote.events \o <<"read">>],
                                      "RuntimeError")]
                       /\ pc' = [pc EXCEPT ![c] = "idle"]
                       /\ conns' = Collect(sent, w, pc', call')
                  ELSE /\ call' = [call EXCEPT ![c] = [wrote EXCEPT !.conn = r]]
                       /\ pc' = [pc EXCEPT ![c] = "read"]
                       /\ conns' = Collect([sent EXCEPT ![r].waiter = c], w, pc', call')
             ELSE LET got == ReadBytes(sent, r)
                  IN  /\ call' = [call EXCEPT ![c] = Returned(wrote, got)]
                      /\ pc' = [pc EXCEPT ![c] = "idle"]
                      /\ conns' = Collect([sent EXCEPT ![r] = got.conn], w, pc', call')

\* _send_command up to its first suspension.
SendCommand(c, rec) ==
    LET started == [rec EXCEPT !.startOpen = ~NeedsConnect(conns, writer)]
    IN  IF NeedsConnect(conns, writer)
        THEN /\ call' = [call EXCEPT ![c] =
                            [started EXCEPT !.events = <<"connect">>]]
             /\ pc' = [pc EXCEPT ![c] = "connect"]
             /\ UNCHANGED conns
        ELSE WriteAndRead(c, started, conns, reader, writer)

\* A facade operation, from its call to the first suspension of the caller:
\* the payload, _send_request (_get_seq, create_command) and _send_command.
Invoke(c, op, a, cap) ==
    /\ pc[c] = "idle"
    /\ nsend < cap
    /\ LET p == Payload(op, a)
           rec == [NoCall EXCEPT !.op = op, !.args = a, !.n = ncalls,
                                 !.outcome = "running"]
       IN  IF ~p.ok
           THEN /\ ncalls - nsend < MaxEarly
                /\ call' = [call EXCEPT ![c] = Failed(rec, p.exc)]
                /\ UNCHANGED <<seq, nsend, pc, conns>>
           ELSE LET seqn == SendRequestSeq(seq)
                    cmd == CreateCommand(mac, p.val, seqn.val)
                    sent == [rec EXCEPT !.k = nsend]
                IN  /\ seq' = GetSeqNext(seq)
                    /\ nsend' = nsend + 1
                    /\ IF ~cmd.ok
                       THEN /\ call' = [call EXCEPT ![c] = Failed(sent, cmd.exc)]
                            /\ UNCHANGED <<pc, conns>>
                       ELSE SendCommand(c, [sent EXCEPT !.cmd = cmd.val])
    /\ ncalls' = ncalls + 1
    /\ UNCHANGED <<mac, reader, writer, connOks, everClosed, nfaults>>
    /\ UNCHANGED pureVars
    /\ UNCHANGED entityVars

\* _connect returns: the new pair is stored and _send_command goes on.
ConnectOk(c) ==
    /\ pc[c] = "connect"
    /\ LET id == NewConnId(conns)
           cs == [i \in DOMAIN conns \cup {id} |->
                     IF i = id THEN FreshConn ELSE conns[i]]
       IN  /\ reader' = id
           /\ writer' = id
           /\ WriteAndRead(c, call[c], cs, id, id)
    /\ connOks' = IF connOks < 2 THEN connOks + 1 ELSE connOks
    /\ UNCHANGED <<mac, seq, ncalls, nsend, everClosed, nfaults>>
    /\ UNCHANGED pureVars
    /\ UNCHANGED entityVars

\* The exceptions _connect raises: the wait_for timeout, a refused connection.
ConnectErrors == {"TimeoutError", "ConnectionRefusedError"}

ConnectFailRetry(c, e) ==
    /\ pc[c] = "connect"
    /\ IF Len(call[c].events) < 2
       THEN /\ call' = [call EXCEPT ![c].events = Append(@, "connect")]
            /\ UNCHANGED pc
       ELSE /\ call' = [call EXCEPT ![c] = Failed(call[c], e)]
            /\ pc' = [pc EXCEPT ![c] = "idle"]
    /\ UNCHANGED <<mac, seq, reader, writer, conns, ncalls, nsend, connOks,
                   everClosed, nfaults>>
    /\ UNCHANGED pureVars
    /\ UNCHANGED entityVars

\* _connect raises: nothing is stored and the exception leaves the call.
ConnectFail(c, e) ==
    /\ pc[c] = "connect"
    /\ call' = [call EXCEPT ![c] = Failed(call[c], e)]
    /\ pc' = [pc EXCEPT ![c] = "idle"]
    /\ UNCHANGED <<mac, seq, reader, writer, conns, ncalls, nsend, connOks,
                   everClosed, nfaults>>
    /\ UNCHANGED pureVars
    /\ UNCHANGED entityVars

\* The suspended read(1024) resumes after the stream woke it.
ReadResume(c) ==
    /\ pc[c] = "read"
    /\ conns[call[c].conn].waiter # c
    /\ LET r == call[c].conn
           got == ReadBytes(conns, r)
       IN  /\ call' = [call EXCEPT ![c] = Returned(call[c], got)]
           /\ pc' = [pc EXCEPT ![c] = "idle"]
           /\ conns' = Collect([conns EXCEPT ![r] = got.conn], writer, pc', call')
    /\ UNCHANGED <<mac, seq, reader, writer, ncalls, nsend, connOks, everClosed,
                   nfaults>>
    /\ UNCHANGED pureVars
    /\ UNCHANGED entityVars

\* The requests of send k, marked as abandoned by their caller.
Abandon(q, k) == [i \in 1..Len(q) |-> IF q[i].k = k THEN [q[i] EXCEPT !.ab = TRUE] ELSE q[i]]

\* The caller's task is cancelled while it is suspended in _connect or in
\* read: CancelledError leaves the call; a waiting read clears its waiter.
Cancel(c) ==
    /\ pc[c] \in {"connect", "read"}
    /\ nfaults < MaxFaults
    /\ nfaults' = nfaults + 1
    /\ call' = [call EXCEPT ![c] = [call[c] EXCEPT !.outcome = "cancelled", !.conn = 0]]
    /\ pc' = [pc EXCEPT ![c] = "idle"]
    /\ conns' = Collect([i \in DOMAIN conns |->
                            [conns[i] EXCEPT
                                !.waiter = IF @ = c /\ pc[c] = "read" THEN 0 ELSE @,
                                !.pending = Abandon(@, call[c].k),
                                !.segs = Abandon(@, call[c].k)]],
                        writer, pc', call')
    /\ UNCHANGED <<mac, seq, reader, writer, ncalls, nsend, connOks, everClosed>>
    /\ UNCHANGED pureVars
    /\ UNCHANGED entityVars

\* The device answers the oldest unanswered request of a connection: the bytes
\* reach the stream's buffer and a waiting read is woken.
DeviceRespond(id, resp) ==
    /\ id \in DOMAIN conns
    /\ conns[id].open
    /\ ~conns[id].eof
    /\ Len(conns[id].pending) > 0
    /\ LET q == Head(conns[id].pending)
       IN  conns' = [conns EXCEPT
                        ![id].pending = Tail(@),
                        ![id].buf = @ \o resp,
                        ![id].segs = Append(@, [k |-> q.k, ab |-> q.ab, n |-> Len(resp)]),
                        ![id].waiter = 0]
    /\ UNCHANGED <<mac, seq, reader, writer, pc, call, ncalls, nsend, connOks,
                   everClosed, nfaults>>
    /\ UNCHANGED pureVars
    /\ UNCHANGED entityVars

\* The peer ends a connection: "eof" is a half-close (the stream is at EOF,
\* the transport stays open), "lost" a lost connection (the transport closes).
PeerClose(id, how) ==
    /\ id \in DOMAIN conns
    /\ conns[id].open
    /\ ~conns[id].eof
    /\ nfaults < MaxFaults
    /\ nfaults' = nfaults + 1
    /\ conns' = Collect([conns EXCEPT ![id].eof = TRUE,
                                      ![id].open = (how = "eof"),
                                      ![id].pending = <<>>,
                                      ![id].waiter = 0],
                        writer, pc, call)
    /\ everClosed' = TRUE
    /\ UNCHANGED <<mac, seq, reader, writer, pc, call, ncalls, nsend, connOks>>
    /\ UNCHANGED pureVars
    /\ UNCHANGED entityVars

\* Two callers on one session, with every fault of the environment.
Next ==
    \/ \E c \in Callers, op \in SessionOps : Invoke(c, op, GetStateArgs, MaxSends)
    \/ \E c \in Callers : ConnectOk(c)
    \/ \E c \in Callers, e \in ConnectErrors : ConnectFail(c, e)
    \/ \E c \in Callers : ReadResume(c)
    \/ \E c \in Callers : Cancel(c)
    \/ \E id \in DOMAIN conns, resp \in SeqResponses : DeviceRespond(id, resp)
    \/ \E id \in DOMAIN conns, how \in {"eof", "lost"} : PeerClose(id, how)

Spec == Init /\ [][Next]_vars

\* One caller issuing its operations one after another, with every fault of
\* the environment, long enough for the counter to wrap.
NextSeq ==
    \/ \E op \in SessionOps : Invoke(1, op, GetStateArgs, MaxSeqSends)
    \/ ConnectOk(1)
    \/ \E e \in ConnectErrors : ConnectFail(1, e)
    \/ ReadResume(1)
    \/ Cancel(1)
    \/ \E id \in DOMAIN conns, resp \in SeqResponses : DeviceRespond(id, resp)
    \/ \E id \in DOMAIN conns, how \in {"eof", "lost"} : PeerClose(id, how)

SpecSeq == Init /\ [][NextSeq]_vars

\* One caller issuing every facade operation with every argument, against a
\* device that answers each request.
NextFrames ==
    \/ \E op \in FacadeOps : \E a \in ArgsOf(op) : Invoke(1, op, a, MaxSeqSends)
    \/ ConnectOk(1)
    \/ ReadResume(1)
    \/ \E id \in DOMAIN conns : DeviceRespond(id, ValidResponse)

SpecFrames == Init /\ [][NextFrames]_vars

\* One caller against a device that may send any of its responses.
NextRead ==
    \/ \E op \in SessionOps : Invoke(1, op, GetStateArgs, MaxSends)
    \/ ConnectOk(1)
    \/ ReadResume(1)
    \/ \E id \in DOMAIN conns, resp \in DeviceResponses : DeviceRespond(id, resp)
    \/ \E id \in DOMAIN conns, how \in {"eof", "lost"} : PeerClose(id, how)

SpecRead == Init /\ [][NextRead]_vars

\* ------------------------------------------------------------------------
\* The return path of get_state / change_state on given response bytes
\* ------------------------------------------------------------------------

\* Bytes a response may carry beyond the 32 of the layout.
MaxExtra == 2

\* A 16-bit field as its two big-endian bytes.
U16(v) == <<v \div 256, v % 256>>

\* The 32 bytes after the marker for the given raw field values.
BodyOf(f) ==
    Zeros(8) \o U16(f.cur) \o Zeros(8) \o U16(f.mode) \o U16(f.fan)
    \o U16(f.limits) \o U16(f.power) \o U16(f.health) \o <<170, 85>> \o U16(f.target)

\* Raw field values: the first and last code of each enum, the first one out
\* of range and one whose low byte is in range, flags with and without higher
\* bits set, temperatures above one byte.
FieldInputs ==
    [cur : {25, 300}, mode : {0, 4, 5, 257}, fan : {0, 3, 4, 258}, limits : {0, 2},
     power : {0, 1, 2, 3}, health : {0, 1, 2, 3}, target : {0, 6}]

\* Leading framing without the marker; the last one ends like its beginning.
PrefixInputs == {<<>>, <<0, 0, 39, 21>>, <<255, 255, 34>>}

\* Bodies cut after every length, and with extra bytes behind them.
CutBodies == {StateBody \o Zeros(MaxExtra), Zeros(32 + MaxExtra)}

ParseInputs ==
    {pre \o StateMarker \o BodyOf(f) : pre \in PrefixInputs, f \in FieldInputs}
    \cup {pre \o StateMarker \o SubSeq(b, 1, t) :
             pre \in PrefixInputs, b \in CutBodies, t \in 0..(32 + MaxExtra)}
    \cup {StateMarker \o Zeros(5) \o StateMarker \o StateBody}
    \cup {<<>>, PlainResponse, <<255, 255, 34>>, Zeros(40), SubSeq(StateMarker, 1, 3) \o StateBody}

InitParse ==
    /\ Construct({Chars("AA:BB:CC:DD:EE:FF")})
    /\ pin \in ParseInputs
    /\ pout = NoOutput
    /\ EntityInit

\* get_state / change_state from the return of _send_request on:
\* return self._parse_state(response)
ParseResponse(op) ==
    /\ ~pout.done
    /\ pout' = [done |-> TRUE, op |-> op, res |-> FacadeResult(op, pin)]
    /\ UNCHANGED <<sessionVars, pin>>
    /\ UNCHANGED entityVars

NextParse == \E op \in StateOps : ParseResponse(op)

SpecParse == InitParse /\ [][NextParse]_vars

\* ------------------------------------------------------------------------
\* change_state against a device that echoes the payload it was sent
\* ------------------------------------------------------------------------

\* Every argument combination of change_state with a target in 16..31.
EchoInputs ==
    [power : BOOLEAN, mode : DOMAIN ModeValue, fan_speed : DOMAIN FanSpeedValue,
     target_temp : 16..31, health : BOOLEAN, limits : DOMAIN LimitsValue]

\* The payload of a frame: what follows the 80 bytes of the envelope.
PayloadOf(cmd) == SubSeq(cmd, 81, Len(cmd))

\* Bytes the device may send before the echoed payload: none, the envelope
\* of the frame, and the beginning of a marker.
EchoPrefixes(cmd) ==
    IF Len(cmd) < 80 THEN {} ELSE {<<>>, SubSeq(cmd, 1, 80), <<255, 255, 34>>}

InitEcho ==
    /\ Construct({Chars("AA:BB:CC:DD:EE:FF")})
    /\ pin \in EchoInputs
    /\ pout = NoOutput
    /\ EntityInit

\* The device answers the request of caller c with the payload of its frame.
DeviceEcho(id, c, pre) ==
    /\ Len(conns[id].pending) > 0
    /\ Head(conns[id].pending).k = call[c].k
    /\ DeviceRespond(id, pre \o PayloadOf(call[c].cmd))

NextEcho ==
    \/ Invoke(1, "change_state", pin, MaxSends)
    \/ ConnectOk(1)
    \/ ReadResume(1)
    \/ \E id \in DOMAIN conns, pre \in EchoPrefixes(call[1].cmd) : DeviceEcho(id, 1, pre)

SpecEcho == InitEcho /\ [][NextEcho]_vars

\* ------------------------------------------------------------------------
\* Every facade operation's frame, for several MACs and arguments
\* ------------------------------------------------------------------------

\* Arguments of change_state: those of ChangeInputs, the ones get_state uses,
\* and targets whose offset has three and four hex digits.
WireInputs ==
    ChangeInputs
    \cup {GetStateArgs}
    \cup {[power |-> TRUE, mode |-> "COOL", fan_speed |-> "AUTO",
           target_temp |-> t, health |-> FALSE, limits |-> "OFF"] :
              t \in {16, 272, 4112}}

WireArgs(op) == IF op = "change_state" THEN WireInputs ELSE {GetStateArgs}

InitWire ==
    /\ Construct(MacInputs)
    /\ pin = <<>>
    /\ pout = NoOutput
    /\ EntityInit

NextWire ==
    \/ \E op \in FacadeOps : \E a \in WireArgs(op) : Invoke(1, op, a, MaxSends)
    \/ ConnectOk(1)
    \/ ReadResume(1)
    \/ \E id \in DOMAIN conns : DeviceRespond(id, ValidResponse)

SpecWire == InitWire /\ [][NextWire]_vars

\* ------------------------------------------------------------------------
\* _append_checksum on a payload body and on the same body with one digit
\* changed
\* ------------------------------------------------------------------------

\* Payload bodies of equal length: two set-state bodies and the largest sum.
ChecksumBodies ==
    {GetStateCommand,
     StateCommand([power |-> TRUE, mode |-> "DRY", fan_speed |-> "AUTO",
                   target_temp |-> 31, health |-> TRUE, limits |-> "ONLY_VERTICAL"]),
     [i \in 1..Len(GetStateCommand) |-> IF GetStateCommand[i] = " " THEN " " ELSE "f"]}

\* body with the character at position at replaced by digit.
Variant(body, at, digit) == [body EXCEPT ![at] = digit]

ChecksumInputs ==
    {i \in [body : ChecksumBodies, at : 1..Len(GetStateCommand),
            digit : {HexDigits[j] : j \in 1..16}] :
        i.body[i.at] \notin {" ", i.digit}}

InitChecksum ==
    /\ Construct(MacInputs)
    /\ pin \in ChecksumInputs
    /\ pout = NoOutput
    /\ EntityInit

\* state_command = self._append_checksum(state_command), on both bodies.
ChecksumBoth ==
    /\ ~pout.done
    /\ pout' = [done |-> TRUE,
                first |-> AppendChecksum(pin.body),
                second |-> AppendChecksum(Variant(pin.body, pin.at, pin.digit))]
    /\ UNCHANGED <<sessionVars, pin>>
    /\ UNCHANGED entityVars

NextChecksum == ChecksumBoth

SpecChecksum == InitChecksum /\ [][NextChecksum]_vars

\* ------------------------------------------------------------------------
\* The climate entity (climate.py)
\* ------------------------------------------------------------------------

\* HA_TO_AC_MODE; "None" is the value None.
HA_TO_AC_MODE ==
    [COOL |-> "COOL", HEAT |-> "HEAT", FAN_ONLY |-> "FAN", DRY |-> "DRY",
     OFF |-> "None"]

\* AC_TO_HA_MODE.get(mode): the inverse without the OFF entry, None for a
\* mode that has no entry.
AcToHaMode(mode) ==
    LET keys == {h \in DOMAIN HA_TO_AC_MODE :
                    HA_TO_AC_MODE[h] # "None" /\ HA_TO_AC_MODE[h] = mode}
    IN  IF keys = {} THEN "None" ELSE CHOOSE h \in keys : TRUE

\* _attr_hvac_modes
HvacModes == {"OFF", "COOL", "HEAT", "FAN_ONLY", "DRY"}

\* Raw fields of the responses the device gives the entity's client.
EntityFields ==
    [cur : {25}, mode : {0, 1, 2}, fan : {0, 3}, limits : {0}, power : {0, 1},
     health : {0}, target : {3, 6}]

\* What self._api.get_state() gives the entity: a parsed state, None for a
\* short response, or the error of a failed connect.
ApiResults ==
    {ParseState(<<0, 0, 39, 21>> \o StateMarker \o BodyOf(f)) : f \in EntityFields}
    \cup {ParseState(ShortResponse), Raise("TimeoutError")}

\* The temperature keyword of async_set_temperature, given or not.
TemperatureInputs ==
    {[given |-> FALSE], [given |-> TRUE, value |-> 18], [given |-> TRUE, value |-> 24]}

\* The fan modes a user picks among _attr_fan_modes.
FanInputs == {"MIN", "AUTO"}

\* ZenkeoClimate._update_state: the fields it leaves, or the AttributeError of
\* reading an attribute of None.
UpdateState(e, state) ==
    IF ~state.present THEN Raise("AttributeError")
    ELSE LET e1 == [e EXCEPT !.current_temperature = state.current_temperature,
                             !.target_temperature = state.target_temperature,
                             !.fan_mode = state.fan_speed]
         IN  IF state.power
             THEN LET m == AcToHaMode(state.mode)
                  IN  Ok([e1 EXCEPT !.hvac_mode = m, !.previous_hvac_mode = m])
             ELSE Ok([e1 EXCEPT !.hvac_mode = "OFF"])

\* How a handler ended: the fields it leaves and what it handed the client.
Ended(e, outcome, exc, cmd) ==
    [ent |-> e, outcome |-> outcome, exc |-> exc, cmd |-> cmd]

\* ZenkeoClimate._send_state with the fields e, when the client would answer
\* result.  self._api.set_state is looked up before its arguments are
\* evaluated; ZenkeoAC has the methods FacadeOps and no other.
SendState(e, result) ==
    IF "set_state" \notin FacadeOps
    THEN Ended(e, "raised", "AttributeError", NoCommand)
    ELSE LET power == e.hvac_mode # "OFF"
             key == IF power THEN e.hvac_mode ELSE e.previous_hvac_mode
         IN  IF key \notin DOMAIN HA_TO_AC_MODE \/ e.fan_mode \notin DOMAIN FanSpeedValue
             THEN Ended(e, "raised", "KeyError", NoCommand)
             ELSE LET cmd == [issued |-> TRUE, power |-> power,
                              mode |-> HA_TO_AC_MODE[key],
                              fan_speed |-> e.fan_mode,
                              target_temp |-> e.target_temperature]
                  IN  IF ~result.ok THEN Ended(e, "raised", result.exc, cmd)
                      ELSE LET u == UpdateState(e, result.val)
                           IN  IF u.ok THEN Ended(u.val, "returned", "", cmd)
                               ELSE Ended(e, "raised", u.exc, cmd)

\* What the client answers a handler with: a state, the absent state, or an
\* error.
Answer(result) ==
    IF ~result.ok THEN "error" ELSE IF result.val.present THEN "state" ELSE "absent"

\* The record of a handler op that ran to its end r, answer being what the
\* client has for it ("none" when the handler does not turn to the client); trail and resume follow
\* the user's mode choices: trail is <<M>> after the mode was set to M,
\* <<M, "OFF">> after it was then set to OFF; resume is M for a turn-on that
\* comes next.
Handled(op, answer, r, trail, resume) ==
    [op |-> op, answer |-> answer, outcome |-> r.outcome, exc |-> r.exc,
     cmd |-> r.cmd, resume |-> resume, trail |-> trail]

\* ZenkeoClimate.async_update
AsyncUpdate(result) ==
    LET r == IF ~result.ok THEN Ended(entity, "raised", result.exc, NoCommand)
             ELSE IF result.val.present
             THEN LET u == UpdateState(entity, result.val)
                  IN  IF u.ok THEN Ended(u.val, "returned", "", NoCommand)
                      ELSE Ended(entity, "raised", u.exc, NoCommand)
             ELSE Ended(entity, "returned", "", NoCommand)
    IN  /\ entity' = r.ent
        /\ handled' = Handled("async_update", Answer(result), r, <<>>, "none")
        /\ UNCHANGED <<sessionVars, pureVars>>

\* ZenkeoClimate.async_set_temperature
AsyncSetTemperature(temperature, result) ==
    LET r == IF ~temperature.given THEN Ended(entity, "returned", "", NoCommand)
             ELSE SendState([entity EXCEPT !.target_temperature = temperature.value],
                            result)
    IN  /\ entity' = r.ent
        /\ handled' = Handled("async_set_temperature",
                              IF temperature.given THEN Answer(result) ELSE "none",
                              r, <<>>, "none")
        /\ UNCHANGED <<sessionVars, pureVars>>

\* ZenkeoClimate.async_set_hvac_mode
AsyncSetHvacMode(hvac_mode, result) ==
    LET e1 == [entity EXCEPT !.hvac_mode = hvac_mode,
                             !.previous_hvac_mode =
                                 IF hvac_mode # "OFF" THEN hvac_mode ELSE @]
        r == SendState(e1, result)
        trail == IF hvac_mode # "OFF" THEN <<hvac_mode>>
                 ELSE IF Len(handled.trail) = 1 THEN Append(handled.trail, "OFF")
                 ELSE <<>>
    IN  /\ entity' = r.ent
        /\ handled' = Handled("async_set_hvac_mode", Answer(result), r, trail, "none")
        /\ UNCHANGED <<sessionVars, pureVars>>

\* ZenkeoClimate.async_set_fan_mode
AsyncSetFanMode(fan_mode, result) ==
    LET r == SendState([entity EXCEPT !.fan_mode = fan_mode], result)
    IN  /\ entity' = r.ent
        /\ handled' = Handled("async_set_fan_mode", Answer(result), r, <<>>, "none")
        /\ UNCHANGED <<sessionVars, pureVars>>

\* ZenkeoClimate.async_turn_on
AsyncTurnOn(result) ==
    LET r == SendState([entity EXCEPT !.hvac_mode = "COOL"], result)
        resume == IF Len(handled.trail) = 2 THEN handled.trail[1] ELSE "none"
    IN  /\ entity' = r.ent
        /\ handled' = Handled("async_turn_on", Answer(result), r, <<>>, resume)
        /\ UNCHANGED <<sessionVars, pureVars>>

\* ZenkeoClimate.async_turn_off: the coroutine async_set_hvac_mode(OFF) is
\* created and never awaited, so its body does not run.
AsyncTurnOff(result) ==
    LET r == SendState(entity, result)
    IN  /\ entity' = r.ent
        /\ handled' = Handled("async_turn_off", Answer(result), r, <<>>, "none")
        /\ UNCHANGED <<sessionVars, pureVars>>

InitEntity ==
    /\ Construct({Chars("AA:BB:CC:DD:EE:FF")})
    /\ pin = <<>>
    /\ pout = NoOutput
    /\ EntityInit

NextEntity ==
    \/ \E result \in ApiResults : AsyncUpdate(result)
    \/ \E t \in TemperatureInputs, result \in ApiResults : AsyncSetTemperature(t, result)
    \/ \E m \in HvacModes, result \in ApiResults : AsyncSetHvacMode(m, result)
    \/ \E f \in FanInputs, result \in ApiResults : AsyncSetFanMode(f, result)
    \/ \E result \in ApiResults : AsyncTurnOn(result)
    \/ \E result \in ApiResults : AsyncTurnOff(result)

SpecEntity == InitEntity /\ [][NextEntity]_vars

\* ------------------------------------------------------------------------
\* Properties
\* ------------------------------------------------------------------------

\* The 4-byte sequence field of a frame: after the magic (8), two zero blocks
\* (32), the MAC block (16) and a zero block (16).
SeqField(cmd) == SubSeq(cmd, 73, 76)

\* C1 as stated: the frame built by the k-th facade call, k counted from 0 over
\* all facade calls, carries <<0, 0, 0, k mod 256>> in its sequence field.
C1_SeqFieldByFacadeCall ==
    \A c \in Callers :
        call[c].cmd # <<>> => SeqField(call[c].cmd) = <<0, 0, 0, call[c].n % 256>>

\* C1 amended: the frame built by the k-th call that reaches _send_request, k
\* counted from 0 over those calls, carries <<0, 0, 0, k mod 256>>.
C1_SeqFieldBySend ==
    \A c \in Callers :
        call[c].cmd # <<>> => SeqField(call[c].cmd) = <<0, 0, 0, call[c].k % 256>>

\* The 257th send, after a call that raised before _send_request, built a frame
\* whose sequence field wrapped back to 0.
C1_Witness ==
    /\ call[1].k = 256
    /\ call[1].n = 257
    /\ call[1].op = "change_state"
    /\ call[1].cmd # <<>>
    /\ SeqField(call[1].cmd) = <<0, 0, 0, 0>>

\* C2: concurrent callers are serialized: no frame is written while another
\* caller is between its write and its read, and the bytes a caller gets
\* answer its own request only.
C2_Serialized ==
    \A c \in Callers :
        /\ ~call[c].overlap
        /\ call[c].outcome = "returned" => \A t \in call[c].tags : t.k = call[c].k

\* C3: no call receives the response to a request its caller had abandoned
\* after the frame was written.
C3_NoDanglingResponse ==
    \A c \in Callers :
        call[c].outcome = "returned" =>
            \A t \in call[c].tags : ~(t.ab /\ t.k # call[c].k)

\* C4: a frame is written on an open connection only; a send that finds no
\* writer or a closing one connects once, before its write; a send that finds
\* an open writer does not connect and writes on it; and while no connection
\* was ever ended the session has connected at most once, exactly once when a
\* frame was written.
C4_ConnectOnlyWhenNeeded ==
    /\ \A c \in Callers :
          LET r == call[c]
              wrote == \E i \in 1..Len(r.events) : r.events[i] = "write"
              connects == {i \in 1..Len(r.events) : r.events[i] = "connect"}
          IN  /\ wrote => r.wroteOpen
              /\ (r.cmd # <<>> /\ r.startOpen) => connects = {} /\ (wrote => r.reused)
              /\ (r.cmd # <<>> /\ ~r.startOpen) => connects = {1} /\ ~r.reused
    /\ ~everClosed => connOks <= 1
    /\ (~everClosed /\ \E c \in Callers :
            \E i \in 1..Len(call[c].events) : call[c].events[i] = "write")
          => connOks = 1

\* The eighth send in a row returned on the connection the first one opened.
C4_Witness ==
    /\ ~everClosed
    /\ nfaults = 0
    /\ call[1].k = 7
    /\ call[1].outcome = "returned"
    /\ call[1].startOpen
    /\ call[1].reused
    /\ connOks = 1

\* C5: a call that ended with the error of a failed connect made one connect
\* attempt, wrote nothing, read nothing, returned nothing, and the session is
\* left without an open writer.
C5_FailedConnectPropagates ==
    \A c \in Callers :
        (call[c].outcome = "raised" /\ call[c].exc \in ConnectErrors) =>
            /\ pc[c] = "idle"
            /\ call[c].events = <<"connect">>
            /\ call[c].data = <<>>
            /\ call[c].returned = "nothing"
            /\ NeedsConnect(conns, writer)

\* A reconnect after the peer dropped the connection timed out.
C5_Witness ==
    /\ call[1].outcome = "raised"
    /\ call[1].exc = "TimeoutError"
    /\ call[1].op = "get_state"
    /\ call[1].k > 0
    /\ writer # 0

\* C6: the counter stays in 0..255 and always equals the number of
\* _send_request invocations so far mod 256: each invocation advances it by
\* one, nothing else changes it.
C6_CounterFollowsSends == seq \in 0..255 /\ seq = nsend % 256

\* After the counter wrapped, a request was abandoned and the counter stands
\* one past the wrap.
C6_Witness ==
    /\ nsend = 257
    /\ seq = 1
    /\ call[1].outcome = "cancelled"
    /\ call[1].events = <<"write", "drain">>

\* C7: the session owns at most one open connection.
C7_OneOpenSocket == Cardinality({i \in DOMAIN conns : conns[i].open}) <= 1

\* The bytes that follow the first marker of the response.
Trailing(response) == Len(response) - (Find(response, StateMarker) + 4)

\* The bytes the fixed layout needs after the marker.
LayoutBytes == 32

\* A response without the marker, or with too few bytes after it.
Incomplete(response) ==
    Find(response, StateMarker) = 0 - 1 \/ Trailing(response) < LayoutBytes

\* How often the request of send k is on the wire or in a buffer.
Copies(k) ==
    Cardinality({<<i, j>> \in (DOMAIN conns) \X (1..MaxSends) :
                    j <= Len(conns[i].pending) /\ conns[i].pending[j].k = k})
    + Cardinality({<<i, j>> \in (DOMAIN conns) \X (1..MaxSends) :
                    j <= Len(conns[i].segs) /\ conns[i].segs[j].k = k})

\* C8: a send that returned did one write, one drain and one read, in this
\* order; the read handed over at most 1024 bytes and these are what the
\* operation returned or parsed; its frame is on the wire once; an empty or
\* short response gives get_state / change_state the absent state.
C8_OneWriteOneRead ==
    \A c \in Callers :
        call[c].outcome = "returned" =>
            /\ call[c].events \in {<<"write", "drain", "read">>,
                                   <<"connect", "write", "drain", "read">>}
            /\ Len(call[c].data) <= 1024
            /\ Copies(call[c].k) <= 1
            /\ (call[c].op \in StateOps /\ Incomplete(call[c].data))
                  => call[c].returned = "parsed" /\ call[c].state = AbsentState

\* get_state read the first 1024 bytes of a longer response, whose marker is
\* cut off from its fields, and returned the absent state; the rest stays
\* buffered.
C8_Witness ==
    /\ call[1].outcome = "returned"
    /\ call[1].op = "get_state"
    /\ Len(call[1].data) = 1024
    /\ call[1].state = AbsentState
    /\ \E i \in DOMAIN conns : Len(conns[i].buf) > 0

\* C9: on every response get_state and change_state return, a state or the
\* absent value, and never raise; without the marker they return the absent
\* value.
C9_ParseNeverRaises ==
    pout.done =>
        /\ pout.res.outcome = "returned"
        /\ pout.res.returned = "parsed"
        /\ Find(pin, StateMarker) = 0 - 1 => pout.res.state = AbsentState

\* A complete response whose mode code is out of range was parsed to the
\* absent value.
C9_Witness ==
    /\ pout.done
    /\ Find(pin, StateMarker) # 0 - 1
    /\ Trailing(pin) = 32
    /\ pin[Find(pin, StateMarker) + 4 + 20] = 5
    /\ pout.res.state = AbsentState

\* C10: a response whose first marker is followed by fewer than 32 bytes is
\* parsed to the absent value.
C10_TruncatedRejected ==
    (pout.done /\ Find(pin, StateMarker) # 0 - 1 /\ Trailing(pin) < LayoutBytes)
        => pout.res.outcome = "returned" /\ pout.res.state = AbsentState

\* A response with 31 bytes after the marker was parsed to the absent value.
C10_Witness ==
    /\ pout.done
    /\ Find(pin, StateMarker) = 4
    /\ Trailing(pin) = 31
    /\ pout.res.state = AbsentState

\* The raw 16-bit field that starts off bytes after the first marker.
RawField(response, off) ==
    LET at == Find(response, StateMarker) + 4 + off
    IN  256 * response[at + 1] + response[at + 2]

\* A response with the marker and the whole layout after it.
Complete(response) ==
    Find(response, StateMarker) # 0 - 1 /\ Trailing(response) >= LayoutBytes

\* C11: a state the parser returns has a mode among the five members of Mode
\* and a fan speed among the four of FanSpeed, the one whose value is the raw
\* 16-bit code; a complete response whose mode code is outside 0..4 or whose
\* fan-speed code is outside 0..3 is parsed to the absent value.
C11_UnknownEnumRejected ==
    pout.done =>
        /\ pout.res.outcome = "returned"
        /\ pout.res.state.present =>
              /\ pout.res.state.mode \in {"SMART", "COOL", "HEAT", "FAN", "DRY"}
              /\ pout.res.state.fan_speed \in {"MAX", "MID", "MIN", "AUTO"}
              /\ ModeValue[pout.res.state.mode] = RawField(pin, 18)
              /\ FanSpeedValue[pout.res.state.fan_speed] = RawField(pin, 20)
        /\ (Complete(pin) /\ (RawField(pin, 18) \notin 0..4 \/ RawField(pin, 20) \notin 0..3))
              => pout.res.state = AbsentState

\* A complete response with mode code 257 (low byte 1) and fan-speed code 3
\* was parsed to the absent value.
C11_Witness ==
    /\ pout.done
    /\ Complete(pin)
    /\ RawField(pin, 18) = 257
    /\ RawField(pin, 20) = 3
    /\ pout.res.state = AbsentState

\* C12: a complete response whose limits code is outside {0, 1} is parsed to
\* the absent value.
C12_UnknownLimitsRejected ==
    (pout.done /\ Complete(pin) /\ RawField(pin, 22) \notin {0, 1})
        => pout.res.state = AbsentState

\* C14: a state the parser returns holds the raw current-temperature field,
\* the raw target field plus 16, and the lowest bit of the raw power and
\* health fields, all read behind the first marker; it depends on nothing
\* else of the response but the mode and fan-speed codes.
C14_DecodedFields ==
    (pout.done /\ pout.res.state.present) =>
        /\ Complete(pin)
        /\ pout.res.state =
              [present |-> TRUE,
               current_temperature |-> RawField(pin, 8),
               target_temperature |-> RawField(pin, 30) + 16,
               fan_speed |-> CHOOSE m \in DOMAIN FanSpeedValue :
                                FanSpeedValue[m] = RawField(pin, 20),
               mode |-> CHOOSE m \in DOMAIN ModeValue :
                            ModeValue[m] = RawField(pin, 18),
               health |-> RawField(pin, 26) % 2 = 1,
               power |-> RawField(pin, 24) % 2 = 1]

\* A response with leading bytes, current temperature 300, power field 3 and
\* health field 2 was decoded to power on, health off, target 22.
C14_Witness ==
    /\ pout.done
    /\ pout.res.state.present
    /\ Find(pin, StateMarker) = 4
    /\ RawField(pin, 24) = 3
    /\ RawField(pin, 26) = 2
    /\ pout.res.state.power
    /\ ~pout.res.state.health
    /\ pout.res.state.current_temperature = 300
    /\ pout.res.state.target_temperature = 22

\* C13: when change_state with a target in 16..31 gets back its own payload,
\* behind any of the leading bytes, it returns a state with the target
\* temperature, mode, fan speed, power and health it was called with.
C13_EchoRoundTrip ==
    \A c \in Callers :
        (call[c].op = "change_state" /\ call[c].outcome = "returned") =>
            /\ call[c].state.present
            /\ call[c].state.target_temperature = call[c].args.target_temp
            /\ call[c].state.mode = call[c].args.mode
            /\ call[c].state.fan_speed = call[c].args.fan_speed
            /\ call[c].state.power = call[c].args.power
            /\ call[c].state.health = call[c].args.health

\* change_state(power on, HEAT, MIN, 19) got its payload back behind the 80
\* bytes of the envelope and returned power on, HEAT, MIN, 19.
C13_Witness ==
    /\ call[1].op = "change_state"
    /\ call[1].outcome = "returned"
    /\ call[1].args.mode = "HEAT"
    /\ call[1].args.fan_speed = "MIN"
    /\ call[1].args.target_temp = 19
    /\ call[1].args.power
    /\ Find(call[1].data, StateMarker) = 80
    /\ call[1].state.present
    /\ call[1].state.mode = "HEAT"
    /\ call[1].state.target_temperature = 19

\* The frame change_state builds for arguments a, MAC m and sequence number n.
ChangeStateFrame(m, a, n) ==
    CreateCommand(m, AppendChecksum(StateCommand(a)).val, n).val

\* C15: the frame get_state builds is the frame change_state(power off, COOL,
\* AUTO, 21, health off, limits OFF) builds for the same MAC and sequence
\* number, and the other way round.
C15_GetStateIsSetState ==
    \A c \in Callers :
        /\ (call[c].op = "get_state" /\ call[c].cmd # <<>>) =>
              call[c].cmd = ChangeStateFrame(mac, GetStateArgs, call[c].k)
        /\ (call[c].op = "change_state" /\ call[c].args = GetStateArgs
                /\ call[c].cmd # <<>>) =>
              call[c].cmd =
                  CreateCommand(mac, AppendChecksum(GetStateCommand).val, call[c].k).val

\* get_state wrote its frame as the third send of a session whose MAC was
\* given in lower case.
C15_Witness ==
    /\ call[1].op = "get_state"
    /\ call[1].k = 2
    /\ mac = Chars("0A1B2C3D4E5F")
    /\ Len(call[1].cmd) = 117
    /\ \E i \in 1..Len(call[1].events) : call[1].events[i] = "write"

\* C16: the checksum appended to a payload body leaves the body as it is and
\* adds one byte, and two bodies of equal length that differ in one hex digit
\* get different checksum bytes.
C16_ChecksumSeparates ==
    pout.done =>
        /\ pout.first.ok /\ pout.second.ok
        /\ Len(pout.first.val) = Len(pin.body) + 3
        /\ Len(pout.second.val) = Len(pin.body) + 3
        /\ SubSeq(pout.first.val, 1, Len(pin.body)) = pin.body
        /\ SubSeq(pout.second.val, 1, Len(pin.body)) =
              Variant(pin.body, pin.at, pin.digit)
        /\ LastField(pout.first.val) # LastField(pout.second.val)

\* The body of get_state and the same body with the low digit of its last
\* byte changed from 5 to d got the checksums b7 and c7.
C16_Witness ==
    /\ pout.done
    /\ pin.body = GetStateCommand
    /\ pin.at = Len(GetStateCommand)
    /\ pin.digit = "d"
    /\ LastField(pout.first.val) = Chars("b7")
    /\ LastField(pout.second.val) = Chars("c7")

\* The MAC block of the frame for the normalised MAC m.
MacBlock(m) ==
    IF m = Chars("AABBCCDDEEFF")
    THEN <<65, 65, 66, 66, 67, 67, 68, 68, 69, 69, 70, 70, 0, 0, 0, 0>>
    ELSE IF m = Chars("0A1B2C3D4E5F")
    THEN <<48, 65, 49, 66, 50, 67, 51, 68, 52, 69, 53, 70, 0, 0, 0, 0>>
    ELSE <<>>

\* C17: a frame is the magic, 32 zero bytes, the MAC block, 16 zero bytes, the
\* sequence field, the length field and the payload; the length field holds
\* the number of payload bytes: 13 for hello, turn_on and turn_off, 11 for
\* init.
C17_FrameLayout ==
    \A c \in Callers :
        call[c].cmd # <<>> =>
            LET cmd == call[c].cmd
            IN  /\ Len(cmd) >= 80
                /\ SubSeq(cmd, 1, 8) = <<0, 0, 39, 20, 0, 0, 0, 0>>
                /\ SubSeq(cmd, 9, 40) = Zeros(32)
                /\ SubSeq(cmd, 41, 56) = MacBlock(mac)
                /\ SubSeq(cmd, 57, 72) = Zeros(16)
                /\ SubSeq(cmd, 73, 76) = <<0, 0, 0, call[c].k % 256>>
                /\ SubSeq(cmd, 77, 80) = <<0, 0, 0, Len(cmd) - 80>>
                /\ call[c].op \in {"hello", "turn_on", "turn_off"} => Len(cmd) - 80 = 13
                /\ call[c].op = "init" => Len(cmd) - 80 = 11
                /\ call[c].op = "get_state" => Len(cmd) - 80 = 37

\* init wrote a frame of 91 bytes as the second send of a session whose MAC
\* was given in lower case.
C17_Witness ==
    /\ call[1].op = "init"
    /\ call[1].k = 1
    /\ mac = Chars("0A1B2C3D4E5F")
    /\ Len(call[1].cmd) = 91
    /\ \E i \in 1..Len(call[1].events) : call[1].events[i] = "write"

\* C19: change_state with a target outside 16..31 ends with an error and
\* writes nothing; with a target in 16..31 its payload has 37 bytes and the
\* high byte and the high nibble of each of its six fields are zero.
C19_OnlyWellFormedWritten ==
    \A c \in Callers :
        call[c].op = "change_state" =>
            LET wrote == \E i \in 1..Len(call[c].events) : call[c].events[i] = "write"
                p == PayloadOf(call[c].cmd)
            IN  /\ call[c].args.target_temp \notin 16..31 =>
                      ~wrote /\ (pc[c] = "idle" => call[c].outcome = "raised")
                /\ (call[c].args.target_temp \in 16..31 /\ wrote) =>
                      /\ Len(p) = 37
                      /\ \A j \in {23, 25, 27, 29, 31, 35} :
                             p[j] = 0 /\ p[j + 1] < 16

\* C18: a turn-on that follows "mode set to M, then set to OFF" hands the
\* client a set-state command with power on and the device mode of M.
C18_TurnOnResumes ==
    (handled.op = "async_turn_on" /\ handled.resume # "none") =>
        /\ handled.cmd.issued
        /\ handled.cmd.power
        /\ handled.cmd.mode = HA_TO_AC_MODE[handled.resume]

\* C20: the remembered previous mode is one of COOL, HEAT, FAN_ONLY, DRY.
C20_PreviousModeDefined ==
    entity.previous_hvac_mode \in {"COOL", "HEAT", "FAN_ONLY", "DRY"}

\* C21: after async_turn_off the entity's mode is OFF and the handler handed
\* the client a set-state command with power off and the device mode of the
\* remembered previous mode.
C21_TurnOffSendsPowerOff ==
    handled.op = "async_turn_off" =>
        /\ entity.hvac_mode = "OFF"
        /\ handled.cmd.issued
        /\ ~handled.cmd.power
        /\ handled.cmd.mode = HA_TO_AC_MODE[entity.previous_hvac_mode]

\* C22: a handler for which the client has the absent state ends without an
\* error and leaves the device-reported values (current temperature, and the
\* target, fan and modes as the handler's own assignment left them) alone.
C22_AbsentStateTolerated ==
    [][(handled'.op # "none" /\ handled'.answer = "absent") =>
          /\ handled'.outcome = "returned"
          /\ entity'.current_temperature = entity.current_temperature
          /\ handled'.op = "async_update" => entity' = entity]_vars

=============================================================================
